---- MODULE Spec2Model ----
(***************************************************************************)
(* Model of the workflow-generation front end: the event normalizer and    *)
(* the transformers (src/src/lib/generation-transformers.ts), the          *)
(* generation-state hook (src/src/hooks/use-generation-state.ts), the SSE  *)
(* transport hook (use-sse.ts) and the canvas reveal coordinator           *)
(* (src/src/components/generation-canvas.tsx).                             *)
(*                                                                         *)
(* JavaScript values are tagged records: [t |-> "undefined"],              *)
(* [t |-> "string", v |-> <<lexemes>>], [t |-> "array", v |-> <<...>>],    *)
(* [t |-> "object", v |-> [field |-> value]].  A string is the sequence of *)
(* its lexemes, so that the regular expressions of the transformers can be *)
(* run over it; Concat gives the text.  An SSE event is a record whose     *)
(* DOMAIN is the set of keys the JSON object carries.                      *)
(***************************************************************************)
EXTENDS Integers, Sequences, FiniteSets, TLC

\* ------------------------------------------------------------------ bounds
MaxTime == 1
MaxDelivered == 2
MaxCanvasDelivered == 3

\* ------------------------------------------------------- JavaScript values
Undefined == [t |-> "undefined"]
Null == [t |-> "null"]
Str(lexemes) == [t |-> "string", v |-> lexemes]
S(text) == Str(<<text>>)
Arr(items) == [t |-> "array", v |-> items]
Obj(fields) == [t |-> "object", v |-> fields]
ObjE(entries) == [t |-> "object", entries |-> entries]
EmptyObj == Obj(<<>>)

RECURSIVE Concat(_)
Concat(lexemes) ==
  IF lexemes = <<>> THEN "" ELSE Head(lexemes) \o Concat(Tail(lexemes))

\* !v
Truthy(v) ==
  CASE v.t = "undefined" -> FALSE
    [] v.t = "null" -> FALSE
    [] v.t = "string" -> v.v # <<>>
    [] OTHER -> TRUE

\* typeof v === 'object'
TypeofObject(v) == v.t \in {"object", "array", "null"}
TypeofString(v) == v.t = "string"
IsArray(v) == v.t = "array"

\* v.f on a value that is neither undefined nor null
Prop(v, f) ==
  IF v.t = "object" /\ "v" \in DOMAIN v /\ f \in DOMAIN v.v THEN v.v[f]
  ELSE Undefined

\* a || b on strings, giving the text
TextOr(v, default) == IF Truthy(v) /\ TypeofString(v) THEN Concat(v.v) ELSE default

\* v === text
StrictEq(v, text) == TypeofString(v) /\ Concat(v.v) = text

HasKey(event, k) == k \in DOMAIN event

\* -------------------------------------------------------------- type guards
isSSEStepEvent(event) == HasKey(event, "step") /\ HasKey(event, "status")

isSSESystemEvent(event) == HasKey(event, "type") /\ ~HasKey(event, "step")

\* ------------------------------------------------------------- transformers
\* nodeName.toLowerCase().replace(/[^a-z0-9]/g, '_') on the names of the model
Slug(name) ==
  CASE name = "A" -> "a"
    [] name = "B" -> "b"
    [] name = "C" -> "c"
    [] OTHER -> name

Names(items) ==
  [i \in 1..Len(items) |-> IF TypeofString(items[i]) THEN Concat(items[i].v) ELSE "?"]

transformArchitecturePlannerNodes(summary, now) ==
  IF TypeofString(summary) THEN <<>>
  ELSE LET names == Names(summary.v) IN
    [i \in 1..Len(names) |->
      [nodeId |-> "node_" \o Slug(names[i]) \o "_" \o ToString(now) \o "_" \o ToString(i - 1),
       name |-> names[i],
       description |-> names[i] \o " node - finalizing nodes...",
       status |-> "idle",
       params |-> Undefined,
       loop_text |-> Undefined,
       isMock |-> FALSE,
       isArchitecturePlanner |-> TRUE]]

transformMockNodes(nodeNames, now) ==
  [i \in 1..Len(nodeNames) |->
    [nodeId |-> "mock_" \o Slug(nodeNames[i]) \o "_" \o ToString(now) \o "_" \o ToString(i - 1),
     name |-> nodeNames[i],
     description |-> nodeNames[i] \o " - generating details...",
     status |-> "generating",
     params |-> Undefined,
     loop_text |-> Undefined,
     isMock |-> TRUE,
     isArchitecturePlanner |-> FALSE]]

\* variant of transformNodes without the .filter(Boolean)
transformNodesKeepsAll(data) ==
  IF ~Truthy(data) \/ ~Truthy(Prop(data, "nodes")) \/ ~IsArray(Prop(data, "nodes"))
  THEN <<>>
  ELSE LET entries == Prop(data, "nodes").v
       IN [i \in 1..Len(entries) |->
            [nodeId |-> TextOr(Prop(entries[i], "nodeId"), "?"),
             name |-> TextOr(Prop(entries[i], "name"), "Unnamed Node"),
             description |-> TextOr(Prop(entries[i], "description"), "No description"),
             status |-> "idle",
             params |-> Undefined,
             loop_text |-> Undefined,
             isMock |-> FALSE,
             isArchitecturePlanner |-> FALSE]]

transformNodes(data) ==
  IF ~Truthy(data) \/ ~Truthy(Prop(data, "nodes")) \/ ~IsArray(Prop(data, "nodes"))
  THEN <<>>
  ELSE LET entries == Prop(data, "nodes").v
           kept == SelectSeq(entries, LAMBDA n : Truthy(n) /\ Truthy(Prop(n, "nodeId")))
       IN [i \in 1..Len(kept) |->
            [nodeId |-> TextOr(Prop(kept[i], "nodeId"), "?"),
             name |-> TextOr(Prop(kept[i], "name"), "Unnamed Node"),
             description |-> TextOr(Prop(kept[i], "description"), "No description"),
             status |-> "idle",
             params |-> Undefined,
             loop_text |-> Undefined,
             isMock |-> FALSE,
             isArchitecturePlanner |-> FALSE]]

\* data.connections.map(...) raises a TypeError when data.connections is no array
transformConnectionsThrows(data) == ~IsArray(Prop(data, "connections"))

\* variant of transformConnections that swaps the ends of a connection
transformConnectionsSwapped(data) ==
  LET conns == Prop(data, "connections").v IN
  [i \in 1..Len(conns) |->
    LET source == TextOr(Prop(conns[i], "target"), "undefined")
        target == TextOr(Prop(conns[i], "source"), "undefined")
    IN [source |-> source,
        target |-> target,
        id |-> "edge_" \o source \o "_" \o target \o "_" \o ToString(i - 1)]]

transformConnections(data) ==
  LET conns == Prop(data, "connections").v IN
  [i \in 1..Len(conns) |->
    LET source == TextOr(Prop(conns[i], "source"), "undefined")
        target == TextOr(Prop(conns[i], "target"), "undefined")
    IN [source |-> source,
        target |-> target,
        id |-> "edge_" \o source \o "_" \o target \o "_" \o ToString(i - 1)]]

\* called as transformDatabaseInfo(data.databases): `data` is the array itself
transformDatabaseInfo(data) ==
  IF ~Truthy(Prop(data, "databases")) \/ Len(Prop(data, "databases").v) = 0
  THEN Null
  ELSE LET firstDb == Prop(data, "databases").v[1] IN
       Obj([name |-> Prop(firstDb, "name"), link |-> Prop(firstDb, "link")])

\* variant of updateNodeStatus that keeps only the node it updates
updateNodeStatusDropsOthers(nodes, nodeId, status) ==
  LET kept == SelectSeq(nodes, LAMBDA n : StrictEq(nodeId, n.nodeId)) IN
  [i \in 1..Len(kept) |-> [kept[i] EXCEPT !.status = status]]

updateNodeStatus(nodes, nodeId, status) ==
  [i \in 1..Len(nodes) |->
    IF StrictEq(nodeId, nodes[i].nodeId) THEN [nodes[i] EXCEPT !.status = status]
    ELSE nodes[i]]

\* ---------------------------------------------------------------- normalizer
WithData(event, data) ==
  [k \in DOMAIN event \cup {"data"} |-> IF k = "data" THEN data ELSE event[k]]

sanitizeEventData(event) ==
  IF ~isSSEStepEvent(event) THEN event
  ELSE IF ~HasKey(event, "data") \/ ~Truthy(event.data) \/ ~TypeofObject(event.data)
  THEN WithData(event, EmptyObj)
  ELSE CASE event.step = "node_selector" /\ ~IsArray(Prop(event.data, "nodes")) ->
              WithData(event, Obj([nodes |-> Arr(<<>>)]))
         [] event.step = "connection_builder" /\ ~IsArray(Prop(event.data, "connections")) ->
              WithData(event, Obj([connections |-> Arr(<<>>)]))
         [] event.step = "database_setup" /\ ~IsArray(Prop(event.data, "databases")) ->
              WithData(event, Obj([databases |-> Arr(<<>>)]))
         [] OTHER -> event

\* ------------------------------------------------ corrupted-payload parsing
\* Lexemes: a quote, a bracket, a key such as "id=" or a run of other
\* characters is one lexeme each; "param_name=" is written "param_", "name=",
\* since /name=/ also matches inside it.
Quotes == {"'", "\""}

FirstIn(indices) ==
  IF indices = {} THEN 0 ELSE CHOOSE i \in indices : \A j \in indices : i <= j

NoMatch == [found |-> FALSE]

KeyAt(ts, p, key) ==
  /\ p + Len(key) - 1 <= Len(ts)
  /\ SubSeq(ts, p, p + Len(key) - 1) = key

\* /KEY['"]([^'"]+)['"]/ searched from index `from`
QuotedAt(ts, p, key) ==
  LET q == p + Len(key)
      j == FirstIn({k \in (q + 1)..Len(ts) : ts[k] \in Quotes})
  IN /\ KeyAt(ts, p, key)
     /\ q <= Len(ts)
     /\ ts[q] \in Quotes
     /\ j > q + 1

MatchQuoted(ts, key, from) ==
  LET p == FirstIn({k \in from..Len(ts) : QuotedAt(ts, k, key)}) IN
  IF p = 0 THEN NoMatch
  ELSE LET q == p + Len(key)
           j == FirstIn({k \in (q + 1)..Len(ts) : ts[k] \in Quotes})
       IN [found |-> TRUE, at |-> p, cap |-> SubSeq(ts, q + 1, j - 1), end |-> j]

\* JSON.parse of the text of an array of strings: "[", then items "\"" ... "\""
\* separated by ",", then "]"
RECURSIVE JsonItems(_, _, _)
JsonItems(ts, i, acc) ==
  IF i > Len(ts) \/ ts[i] # "\"" THEN [ok |-> FALSE]
  ELSE LET j == FirstIn({k \in (i + 1)..Len(ts) : ts[k] = "\""}) IN
       IF j = 0 \/ j = Len(ts) THEN [ok |-> FALSE]
       ELSE IF ts[j + 1] = "]" THEN
              IF j + 1 = Len(ts) THEN [ok |-> TRUE, items |-> Append(acc, SubSeq(ts, i + 1, j - 1))]
              ELSE [ok |-> FALSE]
       ELSE IF ts[j + 1] = "," THEN JsonItems(ts, j + 2, Append(acc, SubSeq(ts, i + 1, j - 1)))
       ELSE [ok |-> FALSE]

JsonParse(ts) ==
  IF Len(ts) < 2 \/ ts[1] # "[" THEN [ok |-> FALSE]
  ELSE IF Len(ts) = 2 /\ ts[2] = "]" THEN [ok |-> TRUE, items |-> <<>>]
  ELSE JsonItems(ts, 2, <<>>)

\* params[paramName] = paramValue, keeping insertion order
SetParam(entries, k, v) ==
  IF \E i \in 1..Len(entries) : entries[i].k = k
  THEN [i \in 1..Len(entries) |-> IF entries[i].k = k THEN [k |-> k, v |-> v] ELSE entries[i]]
  ELSE Append(entries, [k |-> k, v |-> v])

\* paramValue.replace(/\)$/, '') was applied; strip '...' quotes
CleanParamValue(value) ==
  IF Len(value) >= 1 /\ value[1] = "'" /\ value[Len(value)] = "'"
  THEN SubSeq(value, 2, Len(value) - 1)
  ELSE value

\* one match of /NodeParams\(param_name=['"]([^'"]+)['"], param_value=([^)]+)\)/ at p
ParamAt(ts, p) ==
  LET m == IF KeyAt(ts, p, <<"NodeParams(">>)
           THEN MatchQuoted(ts, <<"param_", "name=">>, p + 1) ELSE NoMatch
  IN IF ~m.found \/ m.at # p + 1 THEN NoMatch
     ELSE LET j == m.end
              k == FirstIn({x \in (j + 4)..Len(ts) : ts[x] = ")"})
          IN IF /\ KeyAt(ts, j + 1, <<", ", "param_", "value=">>)
                /\ k > j + 4
             THEN [found |-> TRUE, name |-> Concat(m.cap),
                   value |-> SubSeq(ts, j + 4, k - 1), end |-> k]
             ELSE NoMatch

\* paramsStr.match(/NodeParams(...)/g), folded into params in match order
RECURSIVE ParamMatches(_, _, _)
ParamMatches(ts, from, entries) ==
  LET p == FirstIn({k \in from..Len(ts) : ParamAt(ts, k).found}) IN
  IF p = 0 THEN entries
  ELSE LET m == ParamAt(ts, p) IN
       ParamMatches(ts, m.end + 1, SetParam(entries, m.name, Str(CleanParamValue(m.value))))

\* nodeStr.match(/params=\[(.*?)\]/)
ParamsStr(ts) ==
  LET p == FirstIn({k \in 1..Len(ts) :
                      /\ KeyAt(ts, k, <<"params=", "[">>)
                      /\ \E j \in (k + 2)..Len(ts) : ts[j] = "]"})
  IN IF p = 0 THEN NoMatch
     ELSE LET j == FirstIn({k \in (p + 2)..Len(ts) : ts[k] = "]"}) IN
          [found |-> TRUE, cap |-> SubSeq(ts, p + 2, j - 1)]

\* nodeStr.match(/loop_over=([^,\]]+)/)
LoopStops == {",", ", ", "]"}

LoopOver(ts) ==
  LET p == FirstIn({k \in 1..Len(ts) :
                      /\ ts[k] = "loop_over="
                      /\ k < Len(ts)
                      /\ ts[k + 1] \notin LoopStops})
  IN IF p = 0 THEN NoMatch
     ELSE LET stop == FirstIn({k \in (p + 1)..Len(ts) : ts[k] \in LoopStops})
              last == IF stop = 0 THEN Len(ts) ELSE stop - 1
          IN [found |-> TRUE, cap |-> SubSeq(ts, p + 1, last)]

\* null is Null; a node otherwise
parseNodeString(nodeStr) ==
  LET idMatch == MatchQuoted(nodeStr, <<"id=">>, 1)
      nameMatch == MatchQuoted(nodeStr, <<"name=">>, 1)
      typeMatch == MatchQuoted(nodeStr, <<"type=">>, 1)
      paramsMatch == ParamsStr(nodeStr)
      loopMatch == LoopOver(nodeStr)
  IN IF ~idMatch.found \/ ~nameMatch.found \/ ~typeMatch.found THEN Null
     ELSE [nodeId |-> Concat(idMatch.cap),
           name |-> Concat(nameMatch.cap),
           description |-> Concat(typeMatch.cap) \o " node",
           status |-> "configured",
           params |-> ObjE(IF paramsMatch.found
                           THEN ParamMatches(paramsMatch.cap, 1, <<>>) ELSE <<>>),
           loop_text |-> IF loopMatch.found /\ Concat(loopMatch.cap) # "None"
                         THEN Str(SelectSeq(loopMatch.cap, LAMBDA x : x \notin Quotes))
                         ELSE Null,
           isMock |-> FALSE,
           isArchitecturePlanner |-> FALSE]

\* one match of /\{\{\$([^.}]+)[^}]*\}\}/ at p: the lexemes "{{$", ".", "}}"
RefStops == {".", "}}"}

RefAt(ts, p) ==
  LET close == FirstIn({k \in (p + 1)..Len(ts) : ts[k] = "}}"})
      stop == FirstIn({k \in (p + 1)..Len(ts) : ts[k] \in RefStops})
  IN IF ts[p] = "{{$" /\ close > p + 1 /\ stop > p + 1
     THEN [found |-> TRUE, cap |-> SubSeq(ts, p + 1, stop - 1), end |-> close]
     ELSE NoMatch

\* the node ids referenced by paramValue.match(/.../g), in match order
RECURSIVE Refs(_, _)
Refs(ts, from) ==
  LET p == FirstIn({k \in from..Len(ts) : RefAt(ts, k).found}) IN
  IF p = 0 THEN <<>>
  ELSE LET m == RefAt(ts, p) IN <<Concat(m.cap)>> \o Refs(ts, m.end + 1)

Entries(params) ==
  IF params.t = "object" /\ "entries" \in DOMAIN params THEN params.entries ELSE <<>>

\* the (source, target) pairs in the order the loops of the code visit them
RECURSIVE ParamRefs(_, _, _)
ParamRefs(entries, i, target) ==
  IF i > Len(entries) THEN <<>>
  ELSE LET value == entries[i].v
           here == IF TypeofString(value) THEN Refs(value.v, 1) ELSE <<>>
       IN [j \in 1..Len(here) |-> [source |-> here[j], target |-> target]]
          \o ParamRefs(entries, i + 1, target)

RECURSIVE NodeRefs(_, _)
NodeRefs(nodes, i) ==
  IF i > Len(nodes) THEN <<>>
  ELSE (IF Truthy(nodes[i].params)
        THEN ParamRefs(Entries(nodes[i].params), 1, nodes[i].nodeId) ELSE <<>>)
       \o NodeRefs(nodes, i + 1)

\* `${sourceNodeId}_to_${node.nodeId}`, the key kept in connectionSet
ConnectionId(source, target) == source \o "_to_" \o target

RECURSIVE PushConnections(_, _, _, _)
PushConnections(nodes, refs, i, connections) ==
  IF i > Len(refs) THEN connections
  ELSE LET r == refs[i]
           exists == \E k \in 1..Len(nodes) : nodes[k].nodeId = r.source
           seen == \E k \in 1..Len(connections) :
                     ConnectionId(connections[k].source, connections[k].target)
                       = ConnectionId(r.source, r.target)
       IN IF exists /\ r.source # r.target /\ ~seen
          THEN PushConnections(nodes, refs, i + 1,
                 Append(connections,
                        [source |-> r.source, target |-> r.target,
                         id |-> "edge_" \o r.source \o "_" \o r.target]))
          ELSE PushConnections(nodes, refs, i + 1, connections)

extractConnectionsFromNodes(nodes) ==
  PushConnections(nodes, NodeRefs(nodes, 1), 1, <<>>)

\* the nodes extracted from data.name by the recovery branch (<<>> when it does
\* not fire, JSON.parse raises, or no record parses)
ExtractedNodes(data) ==
  LET name == Prop(data, "name") IN
  IF /\ StrictEq(Prop(data, "nodeId"), "unknown")
     /\ TypeofString(name)
     /\ Len(name.v) > 0
     /\ name.v[1] = "["
  THEN LET nodeStrings == JsonParse(name.v) IN
       IF nodeStrings.ok
       THEN SelectSeq([i \in 1..Len(nodeStrings.items) |-> parseNodeString(nodeStrings.items[i])],
                      LAMBDA n : n # Null)
       ELSE <<>>
  ELSE <<>>

\* variant of the normal update that configures every node of the list
updateNodeConfigurationWithAll(nodes, data, extractedNodes) ==
  IF Len(extractedNodes) > 0 THEN extractedNodes
  ELSE [i \in 1..Len(nodes) |->
         [nodes[i] EXCEPT
            !.name = TextOr(Prop(data, "name"), @),
            !.description = TextOr(Prop(data, "description"), @),
            !.params = IF Truthy(Prop(data, "params")) THEN Prop(data, "params")
                       ELSE ObjE(<<>>),
            !.loop_text = Prop(data, "loop_text"),
            !.status = "configured"]]

\* the normal update, or the extracted nodes when there are any
updateNodeConfigurationWith(nodes, data, extractedNodes) ==
  IF Len(extractedNodes) > 0 THEN extractedNodes
  ELSE [i \in 1..Len(nodes) |->
         IF StrictEq(Prop(data, "nodeId"), nodes[i].nodeId)
         THEN [nodes[i] EXCEPT
                 !.name = TextOr(Prop(data, "name"), @),
                 !.description = TextOr(Prop(data, "description"), @),
                 !.params = IF Truthy(Prop(data, "params")) THEN Prop(data, "params")
                            ELSE ObjE(<<>>),
                 !.loop_text = Prop(data, "loop_text"),
                 !.status = "configured"]
         ELSE nodes[i]]

updateNodeConfiguration(nodes, data) ==
  updateNodeConfigurationWith(nodes, data, ExtractedNodes(data))

\* ------------------------------------------------------------------- state
VARIABLES
  state,               \* GenerationState (useState)
  processedEventIds,   \* useRef<Set<string>>
  eventCount,          \* useRef {received, processed}
  sseCompleted,        \* useState
  isConnected,         \* useSSE useState
  error,               \* useSSE useState: an Error is set
  readyState,          \* the EventSource: "connecting", "open" or "closed"
  crashed,             \* a state updater raised: the render fails, the tree unmounts
  mockFetch,           \* page: getInitialDetails "pending" or "done"
  now,                 \* Date.now()
  delivered,           \* frames the EventSource has handed to onmessage
  discarded            \* deliveries the de-duplication has discarded

hookVars == <<state, processedEventIds, eventCount, sseCompleted, isConnected, error,
              readyState, crashed, mockFetch, now, delivered, discarded>>

createInitialState ==
  [currentStep |-> "null",
   isComplete |-> FALSE,
   hasError |-> FALSE,
   chatMessages |-> <<>>,
   nodes |-> <<>>,
   connections |-> <<>>,
   mockNodes |-> <<>>,
   hasMockNodes |-> FALSE,
   showCanvas |-> FALSE,
   isCollapsed |-> FALSE,
   databases |-> Undefined]

ChatMessage(id, type, content, timestamp, step) ==
  [id |-> id, type |-> type, content |-> content, timestamp |-> timestamp, step |-> step]

\* ----------------------------------------------------------------- reducer
\* variant of the system branch in which status COMPLETED clears hasError
ReduceSystemClearsError(prevState, ev, t) ==
  IF ev.type = "connected" THEN [prevState EXCEPT !.currentStep = "connected"]
  ELSE IF ev.type = "status" /\ HasKey(ev, "status") THEN
    IF ev.status = "COMPLETED" THEN
      [prevState EXCEPT
         !.isComplete = TRUE,
         !.hasError = FALSE,
         !.currentStep = "completed",
         !.chatMessages = Append(@, ChatMessage("msg_" \o ToString(t) \o "_completed",
                            "assistant", S("Agent generation complete!"), t, "completed"))]
    ELSE IF ev.status = "ERROR" THEN
      [prevState EXCEPT
         !.hasError = TRUE,
         !.currentStep = "error",
         !.chatMessages = Append(@, ChatMessage("msg_" \o ToString(t) \o "_error",
                            "error", S("An error occurred during generation"), t, "error"))]
    ELSE prevState
  ELSE prevState

\* the system-event branch of the state updater
ReduceSystem(prevState, ev, t) ==
  IF ev.type = "connected" THEN [prevState EXCEPT !.currentStep = "connected"]
  ELSE IF ev.type = "status" /\ HasKey(ev, "status") THEN
    IF ev.status = "COMPLETED" THEN
      [prevState EXCEPT
         !.isComplete = TRUE,
         !.currentStep = "completed",
         !.chatMessages = Append(@, ChatMessage("msg_" \o ToString(t) \o "_completed",
                            "assistant", S("Agent generation complete!"), t, "completed"))]
    ELSE IF ev.status = "ERROR" THEN
      [prevState EXCEPT
         !.hasError = TRUE,
         !.currentStep = "error",
         !.chatMessages = Append(@, ChatMessage("msg_" \o ToString(t) \o "_error",
                            "error", S("An error occurred during generation"), t, "error"))]
    ELSE prevState
  ELSE prevState

\* the node_configurator/done branch, updatedNodes being
\* updateNodeConfiguration(newState.nodes, data)
ConfiguratorDoneWith(s, updatedNodes) ==
  IF Len(updatedNodes) > Len(s.nodes)
  THEN [s EXCEPT !.nodes = updatedNodes,
                 !.connections = extractConnectionsFromNodes(updatedNodes),
                 !.showCanvas = TRUE]
  ELSE [s EXCEPT !.nodes = updatedNodes]

ConfiguratorDone(s, data) ==
  ConfiguratorDoneWith(s, updateNodeConfiguration(s.nodes, data))

\* variant of the node_selector/done branch that promotes the mock nodes
\* when the payload yields no node
SelectorDoneBranchPromotesMock(s, data) ==
  [s EXCEPT !.nodes = IF Len(transformNodes(data)) = 0 THEN s.mockNodes
                      ELSE transformNodes(data),
            !.hasMockNodes = FALSE,
            !.mockNodes = <<>>]

\* variant of the node_selector/done branch that leaves hasMockNodes alone
SelectorDoneBranchKeepsFlag(s, data) ==
  [s EXCEPT !.nodes = transformNodes(data),
            !.mockNodes = <<>>]

\* the node_selector/done branch
SelectorDoneBranch(s, data) ==
  [s EXCEPT !.nodes = transformNodes(data),
            !.hasMockNodes = FALSE,
            !.mockNodes = <<>>]

\* architecture_planner started: the summary becomes a chat message
PromptBranch(s, ev, t) ==
  IF ev.step = "architecture_planner" /\ ev.status = "started" /\ Truthy(Prop(ev.data, "summary"))
  THEN [s EXCEPT !.chatMessages =
          Append(@, ChatMessage("msg_" \o ToString(t) \o "_prompt", "system",
                                Prop(ev.data, "summary"), t, "architecture_planner"))]
  ELSE s

\* mockNodes of architecture_planner done
PlannerMockNodes(data, t) ==
  transformArchitecturePlannerNodes(
    IF IsArray(Prop(data, "summary")) THEN Prop(data, "summary") ELSE Arr(<<>>), t)

\* variant of the architecture_planner/done branch that also drops the nodes
PlannerBranchClearsNodes(s, ev, t) ==
  IF ev.step = "architecture_planner" /\ ev.status = "done" /\ Truthy(Prop(ev.data, "summary"))
  THEN [s EXCEPT !.mockNodes = PlannerMockNodes(ev.data, t),
                 !.hasMockNodes = Len(PlannerMockNodes(ev.data, t)) > 0,
                 !.showCanvas = TRUE,
                 !.nodes = <<>>]
  ELSE s

PlannerBranch(s, ev, t) ==
  IF ev.step = "architecture_planner" /\ ev.status = "done" /\ Truthy(Prop(ev.data, "summary"))
  THEN [s EXCEPT !.mockNodes = PlannerMockNodes(ev.data, t),
                 !.hasMockNodes = Len(PlannerMockNodes(ev.data, t)) > 0,
                 !.showCanvas = TRUE]
  ELSE s

SelectorBranch(s, ev) ==
  IF ev.step = "node_selector" /\ ev.status = "done" /\ Truthy(Prop(ev.data, "nodes"))
  THEN SelectorDoneBranch(s, ev.data)
  ELSE s

BuilderBranch(s, ev) ==
  IF ev.step = "connection_builder" /\ ev.status = "done"
  THEN [s EXCEPT !.connections = transformConnections(ev.data)]
  ELSE s

ConfiguratorBranch(s, ev) ==
  IF ev.step # "node_configurator" THEN s
  ELSE IF ev.status = "started" /\ Truthy(Prop(ev.data, "nodeId"))
  THEN [s EXCEPT !.nodes = updateNodeStatus(@, Prop(ev.data, "nodeId"), "configuring")]
  ELSE IF ev.status = "done" THEN ConfiguratorDone(s, ev.data)
  ELSE s

DatabaseBranch(s, ev) ==
  IF ev.step = "database_setup" /\ ev.status = "done" /\ Truthy(Prop(ev.data, "databases"))
  THEN [s EXCEPT !.databases = transformDatabaseInfo(Prop(ev.data, "databases"))]
  ELSE s

\* variant of the status-error branch that rolls the node list back
ErrorBranchRollsBack(s, ev, t) ==
  IF ev.status = "error"
  THEN [s EXCEPT
          !.hasError = TRUE,
          !.nodes = <<>>,
          !.chatMessages =
            Append(@, ChatMessage("msg_" \o ToString(t) \o "_step_error", "error",
                                  IF Truthy(Prop(ev.data, "message")) THEN Prop(ev.data, "message")
                                  ELSE S("Error in " \o ev.step),
                                  t, ev.step))]
  ELSE s

\* variant of the status-error branch that puts the error message first
ErrorBranchPrepends(s, ev, t) ==
  IF ev.status = "error"
  THEN [s EXCEPT
          !.hasError = TRUE,
          !.chatMessages =
            <<ChatMessage("msg_" \o ToString(t) \o "_step_error", "error",
                          IF Truthy(Prop(ev.data, "message")) THEN Prop(ev.data, "message")
                          ELSE S("Error in " \o ev.step),
                          t, ev.step)>> \o @]
  ELSE s

ErrorBranch(s, ev, t) ==
  IF ev.status = "error"
  THEN [s EXCEPT
          !.hasError = TRUE,
          !.chatMessages =
            Append(@, ChatMessage("msg_" \o ToString(t) \o "_step_error", "error",
                                  IF Truthy(Prop(ev.data, "message")) THEN Prop(ev.data, "message")
                                  ELSE S("Error in " \o ev.step),
                                  t, ev.step))]
  ELSE s

\* the step-event branch of the state updater, for an event that does not
\* raise: the branches in the order of the source
ReduceStep(prevState, ev, t) ==
  ErrorBranch(
    DatabaseBranch(
      ConfiguratorBranch(
        BuilderBranch(
          SelectorBranch(
            PlannerBranch(
              PromptBranch([prevState EXCEPT !.currentStep = ev.step], ev, t),
              ev, t),
            ev),
          ev),
        ev),
      ev),
    ev, t)

\* the state updater raises (transformConnections reads .map of undefined)
UpdaterThrows(ev) ==
  /\ isSSEStepEvent(ev)
  /\ ev.step = "connection_builder"
  /\ ev.status = "done"
  /\ transformConnectionsThrows(ev.data)

\* setState(prevState => ...) of handleSSEMessage, on the sanitized event
Reduce(prevState, sanitizedEvent, t) ==
  IF isSSESystemEvent(sanitizedEvent) THEN ReduceSystem(prevState, sanitizedEvent, t)
  ELSE IF isSSEStepEvent(sanitizedEvent) THEN ReduceStep(prevState, sanitizedEvent, t)
  ELSE prevState

\* variant of the key that also holds the event's status
EventIdWithStatus(event, t) ==
  (IF HasKey(event, "step") THEN event.step
   ELSE IF HasKey(event, "type") THEN event.type
   ELSE "undefined")
  \o "_" \o (IF HasKey(event, "status") THEN event.status ELSE "") \o "_" \o ToString(t)

\* `${event.step || event.type}_${Date.now()}`
EventId(event, t) ==
  (IF HasKey(event, "step") THEN event.step
   ELSE IF HasKey(event, "type") THEN event.type
   ELSE "undefined") \o "_" \o ToString(t)

\* handleSSEMessage past the de-duplication test
ProcessEvent(event) ==
  LET sanitizedEvent == sanitizeEventData(event) IN
  /\ processedEventIds' = processedEventIds \cup {EventId(event, now)}
  /\ IF UpdaterThrows(sanitizedEvent)
     THEN /\ crashed' = TRUE
          /\ eventCount' = [eventCount EXCEPT !.received = @ + 1]
          /\ UNCHANGED state
     ELSE /\ state' = Reduce(state, sanitizedEvent, now)
          /\ eventCount' =
               [received |-> eventCount.received + 1,
                processed |-> IF isSSESystemEvent(sanitizedEvent)
                              THEN eventCount.processed
                              ELSE eventCount.processed + 1]
          /\ UNCHANGED crashed
  /\ UNCHANGED discarded

\* variant of handleSSEMessage without the de-duplication test
handleSSEMessageNoDedupe(event) == ProcessEvent(event)

handleSSEMessage(event) ==
  IF EventId(event, now) \in processedEventIds
  THEN /\ discarded' = discarded + 1
       /\ UNCHANGED <<state, processedEventIds, eventCount, crashed>>
  ELSE ProcessEvent(event)

\* ------------------------------------------------------------------ events
StepEvent(step, status, data) == [step |-> step, status |-> status, data |-> data]

NodeEntry(id) == Obj([nodeId |-> S(id), name |-> S(id), description |-> S("selected")])

NodeEntries(ids) == Arr([i \in 1..Len(ids) |-> NodeEntry(ids[i])])

ConnEntry(source, target) == Obj([source |-> S(source), target |-> S(target)])

\* "id='..' name='..' type='..' params=[NodeParams(param_name='..', param_value='..')] loop_over=None"
NodeStr(id, type, paramName, paramValue) ==
  <<"id=", "'", id, "'", " ", "name=", "'", id, "'", " ", "type=", "'", type, "'", " ",
    "params=", "[", "NodeParams(", "param_", "name=", "'", paramName, "'", ", ",
    "param_", "value=", "'">> \o paramValue \o <<"'", ")", "]", " ", "loop_over=", "None">>

\* the stringified array of two node records, B reading {{$A.body}}
CorruptedName ==
  <<"[", "\"">> \o NodeStr("A", "HttpRequestNode", "url", <<"http://x">>)
  \o <<"\"", ",", "\"">> \o NodeStr("B", "LLMCallNode", "prompt", <<"{{$", "A", ".", "body", "}}">>)
  \o <<"\"", "]">>

Connected == [type |-> "connected"]
StatusCompleted == [type |-> "status", status |-> "COMPLETED"]
StatusError == [type |-> "status", status |-> "ERROR"]
SystemError == [type |-> "error", message |-> "failed"]
PromptStarted == StepEvent("architecture_planner", "started", Obj([summary |-> S("prompt")]))
PlannerDone == StepEvent("architecture_planner", "done", Obj([summary |-> Arr(<<S("A"), S("B")>>)]))
SelectorDone(ids) == StepEvent("node_selector", "done", Obj([nodes |-> NodeEntries(ids)]))
\* the payload's second entry carries no nodeId
SelectorDonePartial ==
  StepEvent("node_selector", "done",
            Obj([nodes |-> Arr(<<NodeEntry("A"), Obj([name |-> S("B")])>>)]))
SelectorDoneNoNodes == StepEvent("node_selector", "done", Obj([count |-> S("2")]))
SelectorDoneNoData == [step |-> "node_selector", status |-> "done"]
BuilderDone(conns) == StepEvent("connection_builder", "done", Obj([connections |-> Arr(conns)]))
BuilderDoneNoConnections == StepEvent("connection_builder", "done", Obj([count |-> S("1")]))
BuilderDoneNoData == [step |-> "connection_builder", status |-> "done"]
BuilderDoneBadData == StepEvent("connection_builder", "done", S("A->B"))
ConfiguratorStarted(id) == StepEvent("node_configurator", "started", Obj([nodeId |-> S(id)]))
ConfiguratorDone1(id) ==
  StepEvent("node_configurator", "done",
            Obj([nodeId |-> S(id), name |-> S(id), description |-> S("configured"),
                 params |-> ObjE(<<[k |-> "url", v |-> S("http://x")]>>),
                 loop_text |-> Null]))
RecoveryDone ==
  StepEvent("node_configurator", "done",
            Obj([nodeId |-> S("unknown"), name |-> Str(CorruptedName),
                 description |-> S("[]"), params |-> ObjE(<<>>), loop_text |-> Null]))
DatabaseDone ==
  StepEvent("database_setup", "done",
            Obj([databases |-> Arr(<<Obj([name |-> S("db"), link |-> S("http://db")])>>)]))
StepError(step) == StepEvent(step, "error", Obj([message |-> S("boom")]))

\* the steps of a generation
Steps ==
  {"architecture_planner", "node_selector", "connection_builder", "node_configurator",
   "database_setup"}

\* the events a stream may carry in the reducer's specification
Events ==
  {Connected, StatusCompleted, StatusError, SystemError,
   PromptStarted, PlannerDone,
   SelectorDone(<<"A", "B">>), SelectorDonePartial, SelectorDoneNoNodes, SelectorDoneNoData,
   BuilderDone(<<ConnEntry("A", "B")>>), BuilderDoneNoConnections, BuilderDoneNoData,
   BuilderDoneBadData,
   ConfiguratorStarted("A"), ConfiguratorDone1("A"), RecoveryDone,
   DatabaseDone, StepError("node_selector")}

MockNameLists == {<<"A", "B">>, <<"A", "B", "C">>}

\* the events a stream may carry in the canvas's specification
CanvasEvents ==
  {PlannerDone, SelectorDone(<<"A", "B">>), SelectorDone(<<"A", "B", "C">>),
   BuilderDone(<<ConnEntry("A", "B"), ConnEntry("B", "C")>>),
   ConfiguratorStarted("A"), RecoveryDone, StatusCompleted}

\* ------------------------------------------------------------------ actions
Alive == ~crashed

\* eventSource.onopen
EsOpen ==
  /\ Alive
  /\ readyState = "connecting"
  /\ readyState' = "open"
  /\ isConnected' = TRUE
  /\ error' = FALSE
  /\ UNCHANGED <<state, processedEventIds, eventCount, sseCompleted, crashed, mockFetch,
                 now, delivered, discarded>>

\* eventSource.onmessage: JSON.parse, then options.onMessage = handleSSEMessage
EsMessage(event) ==
  /\ Alive
  /\ readyState = "open"
  /\ delivered' = delivered + 1
  /\ handleSSEMessage(event)
  /\ UNCHANGED <<sseCompleted, isConnected, error, readyState, mockFetch, now>>

\* eventSource.onerror: setError, options.onError, close, options.onClose.
\* onError appends createChatMessage('error', ...), which is null for a
\* first argument that is no database_setup step event.
EsError ==
  /\ Alive
  /\ readyState # "closed"
  /\ isConnected' = FALSE
  /\ error' = TRUE
  /\ state' = [state EXCEPT !.hasError = TRUE, !.chatMessages = Append(@, Null)]
  /\ sseCompleted' = TRUE
  /\ readyState' = "closed"
  /\ UNCHANGED <<processedEventIds, eventCount, crashed, mockFetch, now, delivered, discarded>>

reset ==
  /\ Alive
  /\ state' = createInitialState
  /\ sseCompleted' = FALSE
  /\ processedEventIds' = {}
  /\ eventCount' = [received |-> 0, processed |-> 0]
  /\ UNCHANGED <<isConnected, error, readyState, crashed, mockFetch, now, delivered, discarded>>

toggleChat ==
  /\ Alive
  /\ state' = [state EXCEPT !.isCollapsed = ~@]
  /\ UNCHANGED <<processedEventIds, eventCount, sseCompleted, isConnected, error,
                 readyState, crashed, mockFetch, now, delivered, discarded>>

\* the hook's setMockNodes
setMockNodesState(prev, nodeNames, t) ==
  LET mockNodes == transformMockNodes(nodeNames, t) IN
  [prev EXCEPT !.mockNodes = mockNodes,
               !.hasMockNodes = Len(mockNodes) > 0,
               !.showCanvas = Len(mockNodes) > 0]

\* page: the getInitialDetails response arrives with a non-empty node list
fetchMockNodes(nodeNames) ==
  /\ Alive
  /\ mockFetch = "pending"
  /\ mockFetch' = "done"
  /\ state' = setMockNodesState(state, nodeNames, now)
  /\ UNCHANGED <<processedEventIds, eventCount, sseCompleted, isConnected, error,
                 readyState, crashed, now, delivered, discarded>>

\* page: the response carries no nodes, or the request fails
fetchMockNodesNone ==
  /\ Alive
  /\ mockFetch = "pending"
  /\ mockFetch' = "done"
  /\ UNCHANGED <<state, processedEventIds, eventCount, sseCompleted, isConnected, error,
                 readyState, crashed, now, delivered, discarded>>

\* a millisecond passes
Tick ==
  /\ now < MaxTime
  /\ now' = now + 1
  /\ UNCHANGED <<state, processedEventIds, eventCount, sseCompleted, isConnected, error,
                 readyState, crashed, mockFetch, delivered, discarded>>

\* ------------------------------------------------------------------ canvas
VARIABLES
  rfNodes,                  \* useNodesState: the rendered nodes
  edges,                    \* useEdgesState: the rendered edges
  isProcessingConnections,  \* useState
  lastNodeCount,            \* useState
  reactFlowInstance,        \* useState: set by onInit (FALSE is null)
  loops,                    \* the processConnections calls in flight, in start order
  fitViewPending            \* pending setTimeout(fitView, 700) timers

canvasVars == <<rfNodes, edges, isProcessingConnections, lastNodeCount, reactFlowInstance,
                loops, fitViewPending>>

\* the normalizer on its own, and a scripted stream
VARIABLES
  rawEvent,        \* the argument of sanitizeEventData
  sanitizedEvent,  \* its result, once it has returned
  scenario,        \* the name of the scripted stream, "none" without one
  script           \* the events of the scripted stream still to be delivered

\* the mock server's stream route and the connection to the EventSource
VARIABLES
  fixture,          \* events: the fixture's events, <<>> without a mock stream
  idx,              \* let idx: the number of events sent (0-based next index)
  pushNextPending,  \* pushNext is about to run (first call or setTimeout)
  responseEnded,    \* res.end() was called
  inFlight,         \* frames written to the response, not yet dispatched
  sent              \* history: the payloads given to sendSSE, in order

\* extractConnectionsFromNodes on its own
VARIABLES
  extraction        \* the argument nodes, and the returned connections once done

normalizerVars == <<rawEvent, sanitizedEvent>>
scenarioVars == <<scenario, script>>
streamVars == <<fixture, idx, pushNextPending, responseEnded, inFlight, sent>>
restVars == <<normalizerVars, scenarioVars, streamVars, extraction>>

vars == <<hookVars, canvasVars, normalizerVars, scenarioVars, streamVars, extraction>>

\* getLayoutedElements: dagre gives every node a position of its own layout
getLayoutedElements(flowNodes, flowEdges) ==
  [i \in 1..Len(flowNodes) |-> [flowNodes[i] EXCEPT !.position = <<"dagre", 0, 0>>]]

convertToFlowNode(node, index) ==
  [id |-> node.nodeId,
   position |-> <<"seed", 100 + index * 350, 200>>,
   status |-> node.status,
   isMock |-> node.isMock,
   isArchitecturePlanner |-> node.isArchitecturePlanner]

convertToFlowEdge(connection) ==
  [id |-> connection.id, source |-> connection.source, target |-> connection.target]

\* variant of the flowNodes memo that renders both lists
FlowNodesOfBothLists(generationState) ==
  LET nodesToRender == generationState.nodes \o generationState.mockNodes
  IN [i \in 1..Len(nodesToRender) |-> convertToFlowNode(nodesToRender[i], i - 1)]

\* the flowNodes memo
FlowNodes(generationState) ==
  LET nodesToRender == IF Len(generationState.nodes) > 0
                       THEN generationState.nodes ELSE generationState.mockNodes
  IN [i \in 1..Len(nodesToRender) |-> convertToFlowNode(nodesToRender[i], i - 1)]

CurrentNodeCount(generationState) ==
  IF Len(generationState.nodes) > 0
  THEN Len(generationState.nodes) ELSE Len(generationState.mockNodes)

\* the canvas state as one record
Canvas ==
  [nodes |-> rfNodes, edges |-> edges, proc |-> isProcessingConnections,
   last |-> lastNodeCount, loops |-> loops, fit |-> fitViewPending]

SetCanvas(c) ==
  /\ rfNodes' = c.nodes
  /\ edges' = c.edges
  /\ isProcessingConnections' = c.proc
  /\ lastNodeCount' = c.last
  /\ loops' = c.loops
  /\ fitViewPending' = c.fit

\* the values of the effects' dependency arrays in one render
Deps(generationState, c) ==
  [nodesLen |-> Len(generationState.nodes),
   mockLen |-> Len(generationState.mockNodes),
   last |-> c.last,
   connLen |-> Len(generationState.connections),
   isComplete |-> generationState.isComplete,
   proc |-> c.proc,
   edgesLen |-> Len(c.edges)]

\* the node-count effect resets the edges
NodeCountResets(generationState, c) ==
  LET currentNodeCount == CurrentNodeCount(generationState) IN
  \/ currentNodeCount > c.last /\ currentNodeCount > 0
  \/ currentNodeCount < c.last

\* the reveal effect starts processConnections
RevealStarts(generationState, c) ==
  /\ Len(generationState.connections) > 0
  /\ ~c.proc
  /\ Len(c.edges) = 0

\* variant of the effects in which the update of the rendered nodes also
\* resets the edges and the reveal-in-progress flag
EffectsPassResetsOnNodeUpdate(prev, generationState, c, flowNodesChanged, rf) ==
  LET d == Deps(generationState, c)
      runCount == \/ d.nodesLen # prev.nodesLen
                  \/ d.mockLen # prev.mockLen
                  \/ d.last # prev.last
      runReveal == \/ d.connLen # prev.connLen
                   \/ d.isComplete # prev.isComplete
                   \/ d.proc # prev.proc
                   \/ d.edgesLen # prev.edgesLen
      currentNodeCount == CurrentNodeCount(generationState)
      resets == flowNodesChanged \/ (runCount /\ NodeCountResets(generationState, c))
      starts == runReveal /\ RevealStarts(generationState, c)
      base == IF resets THEN <<>> ELSE c.edges
  IN [nodes |-> IF flowNodesChanged THEN FlowNodes(generationState) ELSE c.nodes,
      edges |-> IF starts
                THEN Append(base, convertToFlowEdge(generationState.connections[1]))
                ELSE base,
      proc |-> IF starts THEN TRUE ELSE IF resets THEN FALSE ELSE c.proc,
      last |-> IF resets \/ (runCount /\ c.last = 0 /\ currentNodeCount > 0)
               THEN currentNodeCount ELSE c.last,
      loops |-> IF starts
                THEN Append(c.loops, [connections |-> generationState.connections,
                                      i |-> 1, wait |-> 300, rf |-> rf,
                                      nodeCount |-> currentNodeCount])
                ELSE c.loops,
      fit |-> c.fit]

\* one render and its effects, in the order of the source: setNodes(flowNodes),
\* the node-count effect, the reveal effect. An effect runs when one of its
\* dependencies differs from the previous render's (prev); it reads the
\* values of this render (c) and its updates are applied together afterwards.
EffectsPass(prev, generationState, c, flowNodesChanged, rf) ==
  LET d == Deps(generationState, c)
      runCount == \/ d.nodesLen # prev.nodesLen
                  \/ d.mockLen # prev.mockLen
                  \/ d.last # prev.last
      runReveal == \/ d.connLen # prev.connLen
                   \/ d.isComplete # prev.isComplete
                   \/ d.proc # prev.proc
                   \/ d.edgesLen # prev.edgesLen
      currentNodeCount == CurrentNodeCount(generationState)
      resets == runCount /\ NodeCountResets(generationState, c)
      starts == runReveal /\ RevealStarts(generationState, c)
      base == IF resets THEN <<>> ELSE c.edges
  IN [nodes |-> IF flowNodesChanged THEN FlowNodes(generationState) ELSE c.nodes,
      edges |-> IF starts
                THEN Append(base, convertToFlowEdge(generationState.connections[1]))
                ELSE base,
      proc |-> IF starts THEN TRUE ELSE IF resets THEN FALSE ELSE c.proc,
      last |-> IF resets \/ (runCount /\ c.last = 0 /\ currentNodeCount > 0)
               THEN currentNodeCount ELSE c.last,
      loops |-> IF starts
                THEN Append(c.loops, [connections |-> generationState.connections,
                                      i |-> 1, wait |-> 300, rf |-> rf,
                                      nodeCount |-> currentNodeCount])
                ELSE c.loops,
      fit |-> c.fit]

\* renders until no dependency changes any more
RECURSIVE Effects(_, _, _, _, _)
Effects(prev, generationState, c, flowNodesChanged, rf) ==
  LET c1 == EffectsPass(prev, generationState, c, flowNodesChanged, rf) IN
  IF Deps(generationState, c1) = Deps(generationState, c) THEN c1
  ELSE Effects(Deps(generationState, c), generationState, c1, FALSE, rf)

\* the canvas after a change of the hook's state
Render(flowNodesChanged) ==
  /\ SetCanvas(Effects(Deps(state, Canvas), state', Canvas, flowNodesChanged, reactFlowInstance))
  /\ UNCHANGED reactFlowInstance

\* the canvas after a timer callback has left it as c
RenderCanvas(c) ==
  /\ SetCanvas(Effects(Deps(state, Canvas), state, c, FALSE, reactFlowInstance))
  /\ UNCHANGED reactFlowInstance

\* the reducer assigns newState.nodes or newState.mockNodes a new array
AssignsNodeLists(event) ==
  LET ev == sanitizeEventData(event) IN
  /\ isSSEStepEvent(ev)
  /\ ~UpdaterThrows(ev)
  /\ \/ ev.step = "architecture_planner" /\ ev.status = "done" /\ Truthy(Prop(ev.data, "summary"))
     \/ ev.step = "node_selector" /\ ev.status = "done" /\ Truthy(Prop(ev.data, "nodes"))
     \/ ev.step = "node_configurator" /\ ev.status = "started" /\ Truthy(Prop(ev.data, "nodeId"))
     \/ ev.step = "node_configurator" /\ ev.status = "done"

RemoveAt(seq, k) == SubSeq(seq, 1, k - 1) \o SubSeq(seq, k + 1, Len(seq))

\* reactFlowInstance.getNodes()/getEdges() are non-empty: a layout pass runs
CanLayout(c) == Len(c.nodes) > 0 /\ Len(c.edges) > 0

\* the next iteration of the for loop of call k, or its code after the loop
LoopAdvance(c, k) ==
  LET l == c.loops[k] IN
  IF l.i < Len(l.connections)
  THEN [c EXCEPT !.edges = Append(@, convertToFlowEdge(l.connections[l.i + 1])),
                 !.loops[k] = [l EXCEPT !.i = @ + 1, !.wait = 300]]
  ELSE LET done == [c EXCEPT !.proc = FALSE, !.loops = RemoveAt(@, k)] IN
       IF l.rf /\ CanLayout(c)
       THEN [done EXCEPT !.nodes = getLayoutedElements(c.nodes, c.edges), !.fit = @ + 1]
       ELSE done

\* a timer of processConnections call k fires: the code up to its next await
LoopStep(c, k) ==
  LET l == c.loops[k] IN
  IF l.wait = 300
  THEN IF l.i > 1 /\ l.rf
       THEN IF CanLayout(c)
            THEN [c EXCEPT !.nodes = getLayoutedElements(c.nodes, c.edges),
                           !.loops[k] = [l EXCEPT !.wait = 800]]
            ELSE LoopAdvance(c, k)
       ELSE IF l.i = 1 THEN [c EXCEPT !.loops[k] = [l EXCEPT !.wait = 500]]
       ELSE LoopAdvance(c, k)
  ELSE LoopAdvance(c, k)

LoopTimer(k) ==
  /\ Alive
  /\ k \in 1..Len(loops)
  /\ RenderCanvas(LoopStep(Canvas, k))
  /\ UNCHANGED hookVars

\* the fit-to-view timer fires
FitViewTimer ==
  /\ Alive
  /\ fitViewPending > 0
  /\ fitViewPending' = fitViewPending - 1
  /\ UNCHANGED <<rfNodes, edges, isProcessingConnections, lastNodeCount, reactFlowInstance, loops>>
  /\ UNCHANGED hookVars

\* ReactFlow's onInit
OnInit ==
  /\ Alive
  /\ ~reactFlowInstance
  /\ reactFlowInstance' = TRUE
  /\ UNCHANGED <<rfNodes, edges, isProcessingConnections, lastNodeCount, loops, fitViewPending>>
  /\ UNCHANGED hookVars

CanvasInit ==
  /\ rfNodes = <<>>
  /\ edges = <<>>
  /\ isProcessingConnections = FALSE
  /\ lastNodeCount = 0
  /\ reactFlowInstance = FALSE
  /\ loops = <<>>
  /\ fitViewPending = 0

HookInit ==
  /\ state = createInitialState
  /\ processedEventIds = {}
  /\ eventCount = [received |-> 0, processed |-> 0]
  /\ sseCompleted = FALSE
  /\ isConnected = FALSE
  /\ error = FALSE
  /\ readyState = "connecting"
  /\ crashed = FALSE
  /\ mockFetch = "pending"
  /\ now = 0
  /\ delivered = 0
  /\ discarded = 0

\* ------------------------------------------------- the hook's specification
\* sanitizeEventData has not returned yet
NotSanitized == [pending |-> TRUE]

NormalizerIdle ==
  /\ rawEvent = Connected
  /\ sanitizedEvent = NotSanitized

ScenarioNone ==
  /\ scenario = "none"
  /\ script = <<>>

\* no mock stream was requested
StreamIdle ==
  /\ fixture = <<>>
  /\ idx = 0
  /\ pushNextPending = FALSE
  /\ responseEnded = FALSE
  /\ inFlight = <<>>
  /\ sent = <<>>

\* extractConnectionsFromNodes is not called on its own
ExtractIdle == extraction = [nodes |-> <<>>, done |-> FALSE, connections |-> <<>>]

Init == HookInit /\ CanvasInit /\ NormalizerIdle /\ ScenarioNone /\ StreamIdle /\ ExtractIdle

\* a message of the stream, at most MaxDelivered of them
HookMessage(event) ==
  /\ delivered < MaxDelivered
  /\ EsMessage(event)
  /\ UNCHANGED <<canvasVars, restVars>>

Next ==
  \/ EsOpen /\ UNCHANGED <<canvasVars, restVars>>
  \/ \E event \in Events : HookMessage(event)
  \/ EsError /\ UNCHANGED <<canvasVars, restVars>>
  \/ reset /\ UNCHANGED <<canvasVars, restVars>>
  \/ toggleChat /\ UNCHANGED <<canvasVars, restVars>>
  \/ \E nodeNames \in MockNameLists : fetchMockNodes(nodeNames) /\ UNCHANGED <<canvasVars, restVars>>
  \/ fetchMockNodesNone /\ UNCHANGED <<canvasVars, restVars>>
  \/ Tick /\ UNCHANGED <<canvasVars, restVars>>

Spec == Init /\ [][Next]_vars

\* ------------------------------------------------------ properties of the hook
\* the delivery is a repeat of a key already seen in the session
Duplicate(event) == EventId(event, now) \in processedEventIds

\* C1: a delivery whose de-duplication key (step or type, and arrival
\* millisecond) was already seen is discarded: no field of the state, nor the
\* key set, nor the counters change.
C1_DuplicateDiscarded ==
  [][\/ /\ processedEventIds' = processedEventIds
        /\ eventCount' = eventCount
        /\ state' = state
     \/ \A event \in Events : ~(Duplicate(event) /\ HookMessage(event))]_vars

C1_Witness == discarded > 0 /\ state # createInitialState /\ Len(state.chatMessages) > 0

\* C2: in every step other than reset (stream events, transport callbacks,
\* setMockNodes, toggleChat) isComplete stays true once true and hasError
\* stays true once true.
C2_TerminalStability ==
  [][reset \/ ( /\ state.isComplete => state'.isComplete
                /\ state.hasError => state'.hasError )]_vars

C2_Witness ==
  /\ state.isComplete
  /\ state.hasError
  /\ state.currentStep = "completed"
  /\ Len(state.chatMessages) = 2

\* C3 as stated: in every step other than reset the length of nodes does not
\* decrease.
C3_NodesNeverShrink ==
  [][reset \/ Len(state'.nodes) >= Len(state.nodes)]_vars

\* the event replaces the node list by the nodes of its payload
ReplacesNodes(event) ==
  LET ev == sanitizeEventData(event) IN
  /\ isSSEStepEvent(ev)
  /\ ev.status = "done"
  /\ \/ ev.step = "node_selector" /\ Truthy(Prop(ev.data, "nodes"))
     \/ ev.step = "node_configurator" /\ Len(ExtractedNodes(ev.data)) > 0

\* C3 amended: the length of nodes decreases only by reset or by an event
\* that replaces the node list by its payload's nodes (node_selector/done
\* with a nodes value, node_configurator/done taking the recovery branch).
C3_NodesShrinkOnlyByReplacement ==
  [][\/ reset
     \/ Len(state'.nodes) >= Len(state.nodes)
     \/ \E event \in Events : ReplacesNodes(event) /\ HookMessage(event)]_vars

C3_Witness ==
  /\ Len(state.nodes) = 2
  /\ state.nodes[1].status = "configuring"
  /\ state.currentStep = "node_configurator"

IsBuilderDone(event) ==
  /\ isSSEStepEvent(event)
  /\ event.step = "connection_builder"
  /\ event.status = "done"

\* C7: reducing a connection_builder/done event completes whatever the shape
\* of its payload, and connections is a list afterwards.
C7_BuilderDoneNeverFails ==
  [][\A event \in Events :
       (IsBuilderDone(event) /\ ~Duplicate(event) /\ HookMessage(event)) =>
         /\ ~crashed'
         /\ state'.connections \in Seq([source : STRING, target : STRING, id : STRING])]_vars

\* node_selector/done whose data has no nodes field
IsSelectorDoneWithoutNodes(event) ==
  /\ isSSEStepEvent(event)
  /\ event.step = "node_selector"
  /\ event.status = "done"
  /\ ~HasKey(event, "data") \/ Prop(event.data, "nodes") = Undefined

SelectorDoneEventsWithoutNodes == {event \in Events : IsSelectorDoneWithoutNodes(event)}

\* C8: reducing a node_selector/done event whose data has no nodes field
\* does not raise, and nodes afterwards is what it was before or is empty.
C8_SelectorWithoutNodes ==
  [][\A event \in SelectorDoneEventsWithoutNodes :
       (~Duplicate(event) /\ HookMessage(event)) =>
         /\ ~crashed'
         /\ state'.nodes = state.nodes \/ state'.nodes = <<>>]_vars

C8_Witness ==
  /\ ~crashed
  /\ mockFetch = "done"
  /\ state.currentStep = "node_selector"
  /\ state.showCanvas
  /\ ~state.hasMockNodes
  /\ state.nodes = <<>>
  /\ eventCount.processed = 1

\* the node_selector/done events whose payload holds a list of nodes
SelectorDoneEvents ==
  {event \in Events :
     /\ isSSEStepEvent(event)
     /\ event.step = "node_selector"
     /\ event.status = "done"
     /\ HasKey(event, "data")
     /\ IsArray(Prop(event.data, "nodes"))}

\* the nodeIds of the payload entries that carry one, in payload order
CarriedNodeIds(event) ==
  LET entries == Prop(event.data, "nodes").v
      carrying == SelectSeq(entries, LAMBDA n : Prop(n, "nodeId") # Undefined)
  IN [i \in 1..Len(carrying) |-> Concat(Prop(carrying[i], "nodeId").v)]

\* C28: a node_selector/done event replaces nodes with the payload's nodes,
\* one per payload entry that carries a nodeId, in payload order, each idle;
\* it empties mockNodes and clears hasMockNodes; connections and the chat
\* transcript stay as they were.
C28_SelectorDoneEffect ==
  [][\A event \in SelectorDoneEvents :
       (~Duplicate(event) /\ HookMessage(event)) =>
         /\ [i \in 1..Len(state'.nodes) |-> state'.nodes[i].nodeId] = CarriedNodeIds(event)
         /\ \A i \in 1..Len(state'.nodes) : state'.nodes[i].status = "idle"
         /\ state'.mockNodes = <<>>
         /\ ~state'.hasMockNodes
         /\ state'.connections = state.connections
         /\ state'.chatMessages = state.chatMessages]_vars

\* the partial payload replaced the node list and kept the connection
C28_Witness ==
  /\ state.currentStep = "node_selector"
  /\ Len(state.nodes) = 1
  /\ state.nodes[1].nodeId = "A" /\ state.nodes[1].status = "idle"
  /\ Len(state.connections) = 1
  /\ state.mockNodes = <<>> /\ ~state.hasMockNodes

\* the architecture_planner/done events whose summary is a list of names
PlannerDoneEvents ==
  {event \in Events :
     /\ isSSEStepEvent(event)
     /\ event.step = "architecture_planner"
     /\ event.status = "done"
     /\ HasKey(event, "data")
     /\ IsArray(Prop(event.data, "summary"))
     /\ Len(Prop(event.data, "summary").v) > 0}

SummaryNames(event) ==
  LET summary == Prop(event.data, "summary").v
  IN [i \in 1..Len(summary) |-> Concat(summary[i].v)]

\* C29: an architecture_planner/done event replaces mockNodes with one
\* placeholder node, idle, per name of the payload's summary list, in the
\* list's order; it sets hasMockNodes and showCanvas; nodes, connections and
\* the chat transcript stay as they were.
C29_PlannerDoneEffect ==
  [][\A event \in PlannerDoneEvents :
       (~Duplicate(event) /\ HookMessage(event)) =>
         /\ [i \in 1..Len(state'.mockNodes) |-> state'.mockNodes[i].name] = SummaryNames(event)
         /\ \A i \in 1..Len(state'.mockNodes) :
              /\ state'.mockNodes[i].status = "idle"
              /\ state'.mockNodes[i].isArchitecturePlanner
         /\ state'.hasMockNodes
         /\ state'.showCanvas
         /\ state'.nodes = state.nodes
         /\ state'.connections = state.connections
         /\ state'.chatMessages = state.chatMessages]_vars

\* the placeholders A and B were set beside a node list that was kept
C29_Witness ==
  /\ state.currentStep = "architecture_planner"
  /\ Len(state.mockNodes) = 2
  /\ state.mockNodes[1].name = "A" /\ state.mockNodes[1].isArchitecturePlanner
  /\ state.mockNodes[2].name = "B"
  /\ state.hasMockNodes /\ state.showCanvas
  /\ Len(state.nodes) = 2

\* node_configurator/done events without the corruption pattern, for the
\* first node, the second node and a node that no list holds, as
\* handleSSEMessage hands them to the state updater
ConfiguratorDoneInputs ==
  {sanitizeEventData(ConfiguratorDone1(id)) : id \in {"A", "B", "Z"}}

\* r is s with the nodes of the payload's nodeId configured from the payload
\* and every other node, the length and order of nodes, and connections kept
ConfiguratorDoneEffect(s, r, data) ==
  /\ Len(r.nodes) = Len(s.nodes)
  /\ \A i \in 1..Len(s.nodes) :
       IF s.nodes[i].nodeId = Concat(Prop(data, "nodeId").v)
       THEN /\ r.nodes[i].nodeId = s.nodes[i].nodeId
            /\ r.nodes[i].status = "configured"
            /\ r.nodes[i].params = Prop(data, "params")
            /\ r.nodes[i].description = Concat(Prop(data, "description").v)
            /\ r.nodes[i].loop_text = Prop(data, "loop_text")
       ELSE r.nodes[i] = s.nodes[i]
  /\ r.connections = s.connections

\* C30: reducing a node_configurator/done event without the corruption
\* pattern, in any reachable state, configures the node whose nodeId is the
\* payload's (status configured, the payload's params, description and loop
\* text) and leaves every other node, the length and order of nodes, and
\* connections as they were; with no node of that id the node list is kept.
C30_ConfiguratorDoneEffect ==
  [](\A ev \in ConfiguratorDoneInputs :
       ConfiguratorDoneEffect(state, Reduce(state, ev, now), ev.data))

\* node A was configured from the payload, node B beside it was left idle
C30_Witness ==
  /\ state.currentStep = "node_configurator"
  /\ Len(state.nodes) = 2
  /\ state.nodes[1].nodeId = "A"
  /\ state.nodes[1].status = "configured"
  /\ state.nodes[1].description = "configured"
  /\ state.nodes[2].nodeId = "B"
  /\ state.nodes[2].status = "idle"

\* the database_setup/done events whose databases list is non-empty
DatabaseDoneEvents ==
  {event \in Events :
     /\ isSSEStepEvent(event)
     /\ event.step = "database_setup"
     /\ event.status = "done"
     /\ HasKey(event, "data")
     /\ IsArray(Prop(event.data, "databases"))
     /\ Len(Prop(event.data, "databases").v) > 0}

\* name and link of the first database the payload lists
FirstDatabase(event) ==
  LET firstDb == Prop(event.data, "databases").v[1]
  IN Obj([name |-> Prop(firstDb, "name"), link |-> Prop(firstDb, "link")])

\* C31: a database_setup/done event whose databases list is non-empty records
\* the name and link of the first listed database in the state; nodes,
\* connections, mockNodes and the chat transcript stay as they were.
C31_DatabaseDoneEffect ==
  [][\A event \in DatabaseDoneEvents :
       (~Duplicate(event) /\ HookMessage(event)) =>
         /\ state'.databases = FirstDatabase(event)
         /\ state'.nodes = state.nodes
         /\ state'.connections = state.connections
         /\ state'.mockNodes = state.mockNodes
         /\ state'.chatMessages = state.chatMessages]_vars

\* event.step || event.type
StepOrType(event) ==
  IF HasKey(event, "step") THEN event.step
  ELSE IF HasKey(event, "type") THEN event.type
  ELSE "undefined"

\* with the key of `first` taken in the current millisecond, a delivery of
\* `second` is discarded
DiscardedAfter(first, second) ==
  (EventId(first, now) \in processedEventIds /\ HookMessage(second)) =>
    /\ state' = state
    /\ eventCount' = eventCount
    /\ processedEventIds' = processedEventIds
    /\ discarded' = discarded + 1

\* C32: two distinct events with the same step (or the same system type) that
\* arrive in the same millisecond collide on the de-duplication key: with the
\* key of the first taken in the current millisecond, the second is discarded
\* without changing the state, whatever its status and payload
\* (node_configurator/done after node_configurator/started, the planner's
\* done after its started and the reverse, status ERROR after COMPLETED).
C32_SameMillisecondCollision ==
  [][/\ StepOrType(ConfiguratorStarted("A")) = StepOrType(ConfiguratorDone1("A"))
     /\ DiscardedAfter(ConfiguratorStarted("A"), ConfiguratorDone1("A"))
     /\ DiscardedAfter(PromptStarted, PlannerDone)
     /\ DiscardedAfter(PlannerDone, PromptStarted)
     /\ DiscardedAfter(StatusCompleted, StatusError)]_vars

\* the prompt was processed and a second architecture_planner event of the
\* same millisecond was discarded
C32_Witness ==
  /\ state.currentStep = "architecture_planner"
  /\ Len(state.chatMessages) = 1
  /\ state.mockNodes = <<>>
  /\ discarded = 1
  /\ eventCount.received = 1
  /\ processedEventIds = {"architecture_planner_0"}
  /\ Reduce(state, PlannerDone, now) # state

\* C34: in every reachable state hasMockNodes is true exactly when mockNodes
\* is non-empty (across architecture_planner/done, node_selector/done,
\* setMockNodes and reset).
C34_MockFlagMatchesList == [](state.hasMockNodes <=> Len(state.mockNodes) > 0)

\* mock nodes were shown and then cleared by the selected nodes
C34_Witness ==
  /\ state.showCanvas
  /\ state.currentStep = "node_selector"
  /\ Len(state.nodes) = 2
  /\ state.mockNodes = <<>>
  /\ ~state.hasMockNodes
  /\ mockFetch = "done"
  /\ eventCount.processed = 1

\* C35: in every reachable state, if nodes is non-empty then mockNodes is
\* empty and hasMockNodes is false, for every interleaving of the stream's
\* events with the setMockNodes call of the initial-details response.
C35_NodesExcludeMockNodes ==
  Len(state.nodes) > 0 => (state.mockNodes = <<>> /\ ~state.hasMockNodes)

\* the state holds exactly the nodes A and B, configured, and the connection A -> B
Recovered(s) ==
  /\ Len(s.nodes) = 2
  /\ s.nodes[1].nodeId = "A" /\ s.nodes[1].status = "configured"
  /\ s.nodes[2].nodeId = "B" /\ s.nodes[2].status = "configured"
  /\ Len(s.connections) = 1
  /\ s.connections[1].source = "A"
  /\ s.connections[1].target = "B"

\* C10: reducing the node_configurator/done event with nodeId "unknown" and
\* the string-encoded records A and B (B reading {{$A.body}}) yields exactly
\* the nodes A and B, configured, and exactly the connection A -> B.
C10_CorruptionRecovery ==
  [][(~Duplicate(RecoveryDone) /\ HookMessage(RecoveryDone)) => Recovered(state')]_vars


\* the nodes parsed out of the corrupted payload
RecoveredNodes == ExtractedNodes(sanitizeEventData(RecoveryDone).data)

\* C26: whenever the recovery branch fires, nodes becomes the parsed nodes
\* and connections becomes the edges derived from their back-references,
\* however many nodes the state held before.
C26_RecoveryReplacesConnections ==
  [][(Len(RecoveredNodes) > 0 /\ ~Duplicate(RecoveryDone) /\ HookMessage(RecoveryDone)) =>
       /\ state'.nodes = RecoveredNodes
       /\ state'.connections = extractConnectionsFromNodes(RecoveredNodes)]_vars

\* C11: the state updater is a function of the snapshot and the event alone:
\* reducing an event in any reachable state gives the same state, message
\* ids and mock node ids included, at whatever time it is reduced.
C11_ReducerIgnoresClock ==
  \A event \in Events : \A t \in 0..MaxTime :
    ~UpdaterThrows(sanitizeEventData(event)) =>
      Reduce(state, sanitizeEventData(event), t) = Reduce(state, sanitizeEventData(event), 0)

IsPrefix(s1, s2) == Len(s1) <= Len(s2) /\ SubSeq(s2, 1, Len(s1)) = s1

\* C12: in every step other than reset the transcript before the step is a
\* prefix of the transcript after it.
C12_ChatAppendOnly ==
  [][reset \/ IsPrefix(state.chatMessages, state'.chatMessages)]_vars

C12_Witness ==
  /\ Len(state.chatMessages) = 2
  /\ state.chatMessages[1] # Null /\ state.chatMessages[1].type = "system"
  /\ state.chatMessages[2] # Null /\ state.chatMessages[2].step = "node_selector"

\* a reset has emptied the counters after the stream had delivered events
AfterReset == delivered > eventCount.received + discarded

\* C14: after a reset no event of the stream that was open before it is
\* reduced into the state.
C14_ResetStopsTheStream ==
  [][\A event \in Events : (AfterReset /\ HookMessage(event)) => state' = state]_vars

\* step events with status error, for every step, with and without a message
ErrorEvents ==
  {[step |-> step, status |-> "error"] : step \in Steps}
  \cup {StepEvent(step, "error", data) :
          step \in Steps, data \in {Obj([message |-> S("boom")]), EmptyObj, Null}}

\* the same events as handleSSEMessage hands them to the state updater
SanitizedErrorEvents == {sanitizeEventData(event) : event \in ErrorEvents}

\* r is s with hasError set and one error message appended, the node lists
\* and the connections being those of s
StepErrorEffect(s, r) ==
  /\ r.hasError
  /\ Len(r.chatMessages) = Len(s.chatMessages) + 1
  /\ IsPrefix(s.chatMessages, r.chatMessages)
  /\ r.chatMessages[Len(r.chatMessages)].type = "error"
  /\ r.nodes = s.nodes
  /\ r.connections = s.connections
  /\ r.mockNodes = s.mockNodes

\* C15: reducing a step event with status error, for any step and in any
\* reachable state, sets hasError, appends exactly one error message at the
\* end of the transcript and leaves nodes, connections and mockNodes as
\* they were.
C15_StepErrorEffect ==
  \A ev \in SanitizedErrorEvents :
    \A r \in {Reduce(state, ev, now)} : StepErrorEffect(state, r)

C15_Witness ==
  /\ state.hasError
  /\ state.currentStep = "node_selector"
  /\ Len(state.nodes) = 2
  /\ Len(state.chatMessages) = 1
  /\ state.chatMessages[1] # Null /\ state.chatMessages[1].type = "error"

\* C16: once hasError is true no event of the stream changes nodes,
\* connections, mockNodes or currentStep.
C16_ErrorStopsTheGeneration ==
  [][\A event \in Events :
       (state.hasError /\ HookMessage(event)) =>
         /\ state'.nodes = state.nodes
         /\ state'.connections = state.connections
         /\ state'.mockNodes = state.mockNodes
         /\ state'.currentStep = state.currentStep]_vars

\* the state after the step is the state before it with hasError set and one
\* error message appended
ErrorSurfaced ==
  /\ state'.hasError
  /\ Len(state'.chatMessages) = Len(state.chatMessages) + 1
  /\ state'.chatMessages[Len(state'.chatMessages)].type = "error"

\* C17: a system event of type error, like a status event with status
\* ERROR, sets hasError and appends one error message.
C17_SystemErrorSurfaced ==
  [][\A event \in {SystemError, StatusError} :
       (~Duplicate(event) /\ HookMessage(event)) => ErrorSurfaced]_vars

\* ----------------------------------- the specification of hook and canvas
CanvasMessage(event) ==
  /\ delivered < MaxCanvasDelivered
  /\ EsMessage(event)
  /\ Render(EventId(event, now) \notin processedEventIds /\ AssignsNodeLists(event))
  /\ UNCHANGED restVars

NextCanvas ==
  \/ EsOpen /\ UNCHANGED <<canvasVars, restVars>>
  \/ \E event \in CanvasEvents : CanvasMessage(event)
  \/ fetchMockNodes(<<"A", "B">>) /\ Render(TRUE) /\ UNCHANGED restVars
  \/ OnInit /\ UNCHANGED restVars
  \/ \E k \in 1..Len(loops) : LoopTimer(k) /\ UNCHANGED restVars
  \/ FitViewTimer /\ UNCHANGED restVars

SpecCanvas == Init /\ [][NextCanvas]_vars

\* the browser runs every timer that is due: each pending timer of a
\* processConnections call and the fit-to-view timer fire eventually
TimerFairness ==
  /\ \A k \in 1..(MaxCanvasDelivered + 2) : WF_vars(LoopTimer(k) /\ UNCHANGED restVars)
  /\ WF_vars(FitViewTimer /\ UNCHANGED restVars)

SpecCanvasFair == SpecCanvas /\ TimerFairness

\* --------------------------- hook and canvas with an explicit reset
TeardownEvents ==
  {SelectorDone(<<"A", "B">>),
   BuilderDone(<<ConnEntry("A", "B"), ConnEntry("B", "C")>>)}

NextTeardown ==
  \/ EsOpen /\ UNCHANGED <<canvasVars, restVars>>
  \/ \E event \in TeardownEvents : CanvasMessage(event)
  \/ reset /\ Render(TRUE) /\ UNCHANGED restVars
  \/ OnInit /\ UNCHANGED restVars
  \/ \E k \in 1..Len(loops) : LoopTimer(k) /\ UNCHANGED restVars
  \/ FitViewTimer /\ UNCHANGED restVars

SpecTeardown == Init /\ [][NextTeardown]_vars

\* ---------------------------------------------- properties of the canvas
\* a rendered node made from an entry of mockNodes
IsMockFlowNode(n) == n.isMock \/ n.isArchitecturePlanner

\* C4: the rendered nodes are those of nodes when nodes is non-empty and
\* those of mockNodes otherwise, and never hold a mock node together with a
\* real node.
C4_OnePopulationRendered ==
  LET population == IF Len(state.nodes) > 0 THEN state.nodes ELSE state.mockNodes IN
  /\ Len(rfNodes) = Len(population)
  /\ \A i \in 1..Len(rfNodes) : rfNodes[i].id = population[i].nodeId
  /\ \A i, j \in 1..Len(rfNodes) : IsMockFlowNode(rfNodes[i]) = IsMockFlowNode(rfNodes[j])

C4_Witness ==
  /\ Len(state.nodes) > 0
  /\ Len(state.mockNodes) > 0
  /\ Len(rfNodes) = Len(state.nodes)
  /\ \A i \in 1..Len(rfNodes) : ~IsMockFlowNode(rfNodes[i])

\* the processConnections call k was started against fewer nodes than the
\* node-count effect has recorded since
Interrupted(k) == loops[k].nodeCount < lastNodeCount

\* C5: once the node count has increased during a reveal, the reveal that
\* was started against the old node set appends no further edge.
C5_InterruptedRevealStops ==
  [][\A k \in 1..Len(loops) :
       (LoopTimer(k) /\ Interrupted(k)) => Len(edges') <= Len(edges)]_vars

\* C13: after an explicit reset no timer of a reveal started before it
\* appends an edge, lays the nodes out again, changes
\* isProcessingConnections or schedules a camera move.
C13_ResetDiscardsRevealTimers ==
  [][\A k \in 1..Len(loops) :
       (state = createInitialState /\ LoopTimer(k)) =>
         UNCHANGED <<edges, rfNodes, isProcessingConnections, fitViewPending>>]_vars

\* some connection is rendered as two edges
DoubleEdge == \E i, j \in 1..Len(edges) : i < j /\ edges[i].id = edges[j].id

\* C20: at most one reveal process is active at any time, so that no
\* connection is ever rendered as two edges.
C20_OneRevealAtATime == Len(loops) <= 1 /\ ~DoubleEdge

\* the first n connections as rendered edges
RevealedPrefix(connections, n) == [i \in 1..n |-> convertToFlowEdge(connections[i])]

\* the node-count effect has recorded no count but the one the
\* processConnections call k was started against
Undisturbed(k) == loops[k].nodeCount = lastNodeCount

\* C21: while a reveal runs with no node-count change the rendered edges
\* are the connections appended so far, a prefix of the connections in their
\* order; each of its timers appends at most one edge, and when it returns
\* the rendered edges are all the connections, each once.
C21_RevealGrowsByPrefix ==
  [][\A k \in 1..Len(loops) :
       (Undisturbed(k) /\ LoopTimer(k) /\ lastNodeCount' = lastNodeCount) =>
         /\ edges = RevealedPrefix(loops[k].connections, loops[k].i)
         /\ \/ edges' = edges
            \/ edges' = RevealedPrefix(loops[k].connections, loops[k].i + 1)
         /\ Len(loops') < Len(loops) =>
              edges' = RevealedPrefix(loops[k].connections, Len(loops[k].connections))]_vars

\* every connection of the snapshot is rendered as an edge
AllConnectionsRendered ==
  \A i \in 1..Len(state.connections) :
    \E j \in 1..Len(edges) :
      /\ edges[j].source = state.connections[i].source
      /\ edges[j].target = state.connections[i].target

\* C22: under fair timers every reveal that starts is followed by a state
\* in which no reveal is in progress, no processConnections call is pending
\* and every connection of the snapshot is rendered as an edge, also when
\* the node count changes during the reveal.
C22_RevealTerminates ==
  isProcessingConnections ~>
    (~isProcessingConnections /\ loops = <<>> /\ AllConnectionsRendered)

\* C23: with the canvas instance initialised, the timer that ends the settle
\* delay of the first connection runs no layout pass; the one that ends the
\* settle delay of a later connection lays out the current nodes and edges;
\* the timer on which processConnections returns runs the final layout pass
\* and schedules one fit-to-view.
C23_LayoutSchedule ==
  [][\A k \in 1..Len(loops) :
       (reactFlowInstance /\ LoopTimer(k)) =>
         /\ (loops[k].wait = 300 /\ loops[k].i = 1) =>
              rfNodes' = rfNodes /\ fitViewPending' = fitViewPending
         /\ (loops[k].wait = 300 /\ loops[k].i > 1) =>
              rfNodes' = getLayoutedElements(rfNodes, edges)
         /\ Len(loops') < Len(loops) =>
              /\ rfNodes' = getLayoutedElements(rfNodes, edges)
              /\ fitViewPending' = fitViewPending + 1]_vars

\* node_configurator events: they update fields of nodes
ConfiguratorEvents ==
  {event \in CanvasEvents : HasKey(event, "step") /\ event.step = "node_configurator"}

\* the step changes fields of nodes only: the number of rendered nodes and
\* the connections are what they were
NodeUpdateOnly ==
  /\ CurrentNodeCount(state') = CurrentNodeCount(state)
  /\ state'.connections = state.connections

\* C24: a node_configurator event that updates nodes and leaves the number
\* of rendered nodes unchanged does not change the rendered edges or the
\* reveal-in-progress flag and starts no processConnections call.
C24_NodeUpdateKeepsEdges ==
  [][\/ UNCHANGED <<edges, isProcessingConnections, loops>>
     \/ \A event \in ConfiguratorEvents : ~(NodeUpdateOnly /\ CanvasMessage(event))]_vars

\* a node was configured while the edges of a finished reveal are rendered
C24_Witness ==
  /\ state.currentStep = "node_configurator"
  /\ Len(state.nodes) > 0
  /\ state.nodes[1].status \in {"configuring", "configured"}
  /\ Len(edges) = 2
  /\ ~isProcessingConnections
  /\ loops = <<>>

\* the ids of the rendered nodes
RenderedNodeIds == {rfNodes[i].id : i \in 1..Len(rfNodes)}

\* C25: the source and the target of every rendered edge are ids of
\* rendered nodes.
C25_EdgesReferenceRenderedNodes ==
  \A j \in 1..Len(edges) :
    edges[j].source \in RenderedNodeIds /\ edges[j].target \in RenderedNodeIds

\* the (source, target) pairs of a list of connections or edges, in order
EndPairs(items) == [i \in 1..Len(items) |-> <<items[i].source, items[i].target>>]

\* C37: whenever no reveal is in progress (the flag is false and no
\* processConnections call is pending) and at least one edge is rendered, the
\* rendered edges are the snapshot's connections: the same (source, target)
\* pairs in the same order.
C37_IdleEdgesMatchSnapshot ==
  (~isProcessingConnections /\ loops = <<>> /\ Len(edges) > 0) =>
    EndPairs(edges) = EndPairs(state.connections)

\* a layout pass has positioned every rendered node
LaidOut ==
  /\ Len(rfNodes) > 0
  /\ \A i \in 1..Len(rfNodes) : rfNodes[i].position[1] = "dagre"

\* C38: once a layout pass has positioned the rendered nodes, a
\* node_configurator event that updates a node and keeps the node count
\* leaves every rendered node at its layout position.
C38_NodeUpdateKeepsLayout ==
  [][\A event \in ConfiguratorEvents :
       (LaidOut /\ NodeUpdateOnly /\ state'.nodes # state.nodes /\ CanvasMessage(event)) =>
         /\ Len(rfNodes') = Len(rfNodes)
         /\ \A i \in 1..Len(rfNodes) : rfNodes'[i].position = rfNodes[i].position]_vars

\* ------------------------------------------ the normalizer's specification
\* the array field the normalizer repairs for a step, "" for the other steps
ExpectedField(step) ==
  CASE step = "node_selector" -> "nodes"
    [] step = "connection_builder" -> "connections"
    [] step = "database_setup" -> "databases"
    [] OTHER -> ""

Field(f, v) == [k \in {f} |-> v]

\* shapes of the data of a step event
DataShapes(step) ==
  LET f == IF ExpectedField(step) = "" THEN "summary" ELSE ExpectedField(step) IN
  {Null, S("text"), S(""), Arr(<<>>), EmptyObj,
   Obj([count |-> S("2")]),
   Obj(Field(f, Arr(<<>>))),
   Obj(Field(f, Arr(<<S("A")>>))),
   Obj(Field(f, S("A"))),
   Obj(Field(f, Null))}

RawEvents ==
  {Connected, StatusCompleted, StatusError, SystemError}
  \cup {[step |-> step, status |-> status] : step \in Steps, status \in {"started", "done"}}
  \cup UNION {{StepEvent(step, status, data) : data \in DataShapes(step)} :
                <<step, status>> \in Steps \X {"started", "done"}}

Sanitize ==
  /\ sanitizedEvent = NotSanitized
  /\ sanitizedEvent' = sanitizeEventData(rawEvent)
  /\ UNCHANGED <<rawEvent, hookVars, canvasVars, scenarioVars, streamVars, extraction>>

InitNormalizer ==
  /\ HookInit /\ CanvasInit /\ ScenarioNone /\ StreamIdle /\ ExtractIdle
  /\ rawEvent \in RawEvents
  /\ sanitizedEvent = NotSanitized

SpecNormalizer == InitNormalizer /\ [][Sanitize]_vars

\* C6: the normalizer returns a system event unchanged, and for a step event
\* returns an event whose data is an object holding, for node_selector,
\* connection_builder and database_setup, the expected field as an array.
C6_NormalizerRepairs ==
  sanitizedEvent # NotSanitized =>
    IF isSSEStepEvent(rawEvent)
    THEN /\ HasKey(sanitizedEvent, "data")
         /\ TypeofObject(sanitizedEvent.data) /\ sanitizedEvent.data # Null
         /\ ExpectedField(rawEvent.step) # "" =>
              IsArray(Prop(sanitizedEvent.data, ExpectedField(rawEvent.step)))
    ELSE sanitizedEvent = rawEvent

\* ------------------------------------------- the scripted stream's specification
Happy ==
  <<PlannerDone, SelectorDone(<<"A", "B">>), BuilderDone(<<ConnEntry("A", "B")>>),
    StatusCompleted>>

Scripts ==
  [happy |-> Happy,
   prompt |-> <<PromptStarted>> \o Happy,
   connectedHappy |-> <<Connected>> \o Happy,
   connectedPrompt |-> <<Connected, PromptStarted>> \o Happy]

HasPrompt(name) == name \in {"prompt", "connectedPrompt"}

\* the stream delivers the next event of the script
Deliver ==
  /\ script # <<>>
  /\ EsMessage(Head(script))
  /\ script' = Tail(script)
  /\ UNCHANGED <<scenario, canvasVars, normalizerVars, streamVars, extraction>>

InitScenario ==
  /\ HookInit /\ CanvasInit /\ NormalizerIdle /\ StreamIdle /\ ExtractIdle
  /\ scenario \in DOMAIN Scripts
  /\ script = Scripts[scenario]

NextScenario ==
  \/ EsOpen /\ UNCHANGED <<canvasVars, restVars>>
  \/ Deliver
  \/ toggleChat /\ UNCHANGED <<canvasVars, restVars>>
  \/ Tick /\ UNCHANGED <<canvasVars, restVars>>

SpecScenario == InitScenario /\ [][NextScenario]_vars

ScenarioDone == scenario # "none" /\ script = <<>>

\* C9: after the events architecture_planner/done [A, B], node_selector/done
\* {A, B}, connection_builder/done {A -> B} and status COMPLETED the state
\* holds exactly the nodes A and B, exactly the connection A -> B, no mock
\* node, isComplete, no error, and a transcript of the prompt message (when
\* architecture_planner/started was given) followed by the completion message.
C9_HappyScenario ==
  ScenarioDone =>
    /\ Len(state.nodes) = 2
    /\ state.nodes[1].nodeId = "A" /\ state.nodes[2].nodeId = "B"
    /\ Len(state.connections) = 1
    /\ state.connections[1].source = "A" /\ state.connections[1].target = "B"
    /\ state.mockNodes = <<>> /\ ~state.hasMockNodes
    /\ state.isComplete
    /\ ~state.hasError
    /\ LET chat == state.chatMessages IN
       IF HasPrompt(scenario)
       THEN /\ Len(chat) = 2
            /\ chat[1].type = "system" /\ chat[1].content = S("prompt")
            /\ chat[2].type = "assistant" /\ chat[2].step = "completed"
       ELSE /\ Len(chat) = 1
            /\ chat[1].type = "assistant" /\ chat[1].step = "completed"

C9_Witness ==
  /\ ScenarioDone
  /\ HasPrompt(scenario)
  /\ Len(state.chatMessages) = 2
  /\ state.isComplete

\* ------------------------------------------ the mock stream's specification
\* a successful generation: connected, every step started and done, COMPLETED
SuccessFixture ==
  <<Connected,
    PromptStarted, PlannerDone,
    StepEvent("node_selector", "started", EmptyObj), SelectorDone(<<"A", "B">>),
    StepEvent("connection_builder", "started", EmptyObj), BuilderDone(<<ConnEntry("A", "B")>>),
    ConfiguratorStarted("A"), ConfiguratorDone1("A"),
    StepEvent("database_setup", "started", EmptyObj), DatabaseDone,
    StepEvent("workflow_saver", "done", EmptyObj),
    StatusCompleted>>

\* the fixture files the route may load
Fixtures ==
  [success |-> SuccessFixture,
   stepError |-> <<Connected, PromptStarted, PlannerDone, StepError("node_selector"),
                   SelectorDone(<<"A", "B">>), StatusCompleted>>,
   twoErrors |-> <<Connected, StepError("architecture_planner"), StepError("node_selector")>>,
   systemError |-> <<Connected, PromptStarted, StatusError>>,
   errorLast |-> <<Connected, PromptStarted, StepError("database_setup")>>,
   repeatedNode |-> <<Connected, SelectorDone(<<"A", "A">>), StatusCompleted>>,
   empty |-> <<>>]

\* variant of the status test that never ends the stream early
PayloadIsNeverError(payload) == FALSE

\* payload.status === 'error'
PayloadIsError(payload) == HasKey(payload, "status") /\ payload.status = "error"

\* pushNext: end the response past the last event; otherwise send events[idx],
\* end the response after an error event, else schedule the next call. The
\* delay before a call is at least two seconds, a later millisecond for the
\* page, and long enough for the previous frame to be dispatched.
pushNext ==
  /\ pushNextPending
  /\ inFlight = <<>>
  /\ IF idx >= Len(fixture)
     THEN /\ responseEnded' = TRUE
          /\ pushNextPending' = FALSE
          /\ UNCHANGED <<idx, inFlight, sent>>
     ELSE LET payload == fixture[idx + 1] IN
          /\ inFlight' = Append(inFlight, payload)
          /\ sent' = Append(sent, payload)
          /\ idx' = idx + 1
          /\ responseEnded' = PayloadIsError(payload)
          /\ pushNextPending' = ~PayloadIsError(payload)
  /\ now' = now + 1
  /\ UNCHANGED <<state, processedEventIds, eventCount, sseCompleted, isConnected, error,
                 readyState, crashed, mockFetch, delivered, discarded>>
  /\ UNCHANGED <<fixture, canvasVars, normalizerVars, scenarioVars, extraction>>

\* the EventSource dispatches the next frame of the response to onmessage;
\* sendSSE writes JSON.stringify(payload), onmessage reads it with JSON.parse,
\* which gives a fixture's event (itself parsed JSON) back
StreamMessage ==
  /\ inFlight # <<>>
  /\ EsMessage(Head(inFlight))
  /\ inFlight' = Tail(inFlight)
  /\ UNCHANGED <<fixture, idx, pushNextPending, responseEnded, sent>>
  /\ UNCHANGED <<canvasVars, normalizerVars, scenarioVars, extraction>>

\* the response has ended: the EventSource loses its connection and fires onerror
StreamEnd ==
  /\ responseEnded
  /\ inFlight = <<>>
  /\ EsError
  /\ UNCHANGED <<canvasVars, restVars>>

InitStream ==
  /\ HookInit /\ CanvasInit /\ NormalizerIdle /\ ScenarioNone /\ ExtractIdle
  /\ fixture \in {Fixtures[name] : name \in DOMAIN Fixtures}
  /\ idx = 0
  /\ pushNextPending = TRUE
  /\ responseEnded = FALSE
  /\ inFlight = <<>>
  /\ sent = <<>>

NextStream ==
  \/ EsOpen /\ UNCHANGED <<canvasVars, restVars>>
  \/ pushNext
  \/ StreamMessage
  \/ StreamEnd
  \/ toggleChat /\ UNCHANGED <<canvasVars, restVars>>

SpecStream == InitStream /\ [][NextStream]_vars

\* the page has seen the whole stream and its end
StreamOver == responseEnded /\ inFlight = <<>> /\ readyState = "closed"

\* C18: during a successful run against the stream (connected, every step
\* started and done, status COMPLETED, then the server ends the stream) the
\* transcript never holds anything but the prompt message and the completion
\* message, and holds exactly these two once the stream is over.
C18_TwoMessageTranscript ==
  fixture = SuccessFixture =>
    LET chat == state.chatMessages IN
    /\ Len(chat) <= 2
    /\ \A i \in 1..Len(chat) : chat[i] # Null
    /\ StreamOver =>
         /\ Len(chat) = 2
         /\ chat[1].type = "system" /\ chat[1].content = S("prompt")
         /\ chat[2].type = "assistant" /\ chat[2].step = "completed"

\* C19: the mock stream sends the fixture's events in fixture order, each at
\* most once; it ends the response right after sending the first event whose
\* status is error, and otherwise only after the final event was sent.
C19_MockStreamOrder ==
  /\ Len(sent) <= Len(fixture)
  /\ sent = SubSeq(fixture, 1, Len(sent))
  /\ \A i \in 1..Len(sent) :
       HasKey(sent[i], "status") /\ sent[i].status = "error" => (i = Len(sent) /\ responseEnded)
  /\ responseEnded =>
       \/ Len(sent) = Len(fixture)
       \/ sent # <<>> /\ HasKey(sent[Len(sent)], "status") /\ sent[Len(sent)].status = "error"

\* the stream ended on an error event with events of the fixture still unsent
C19_Witness ==
  /\ responseEnded
  /\ Len(sent) < Len(fixture)
  /\ sent[Len(sent)].status = "error"
  /\ readyState = "closed"

\* ------------------------------------------- extractConnectionsFromNodes alone
MaxExtractNodes == 2

ExtractIds == {"A", "B", "A_to_A"}

\* the text "{{$id.body}}"
RefTo(id) == <<"{{$", id, ".", "body", "}}">>

\* node.params alternatives: none, no reference, one reference, a reference to
\* a node that is not in any list, the same reference twice, a reference held
\* by a value that is not a string
ExtractParams ==
  {Undefined, ObjE(<<[k |-> "url", v |-> S("plain")]>>)}
  \cup {ObjE(<<[k |-> "url", v |-> Str(RefTo(id))]>>) : id \in ExtractIds \cup {"Z"}}
  \cup {ObjE(<<[k |-> "url", v |-> Str(RefTo(id) \o <<" ">> \o RefTo(id))]>>) : id \in {"A"}}
  \cup {ObjE(<<[k |-> "url", v |-> Str(RefTo("A"))],
               [k |-> "body", v |-> Str(RefTo("B") \o RefTo("A"))]>>)}
  \cup {ObjE(<<[k |-> "items", v |-> Arr(RefTo("A"))]>>)}

ExtractNode(id, params) ==
  [nodeId |-> id, name |-> id, description |-> "", status |-> "configured",
   params |-> params, loop_text |-> Null, isMock |-> FALSE,
   isArchitecturePlanner |-> FALSE]

ExtractNodes == {ExtractNode(id, params) : id \in ExtractIds, params \in ExtractParams}

ExtractInputs == UNION {[1..n -> ExtractNodes] : n \in 0..MaxExtractNodes}

InitExtract ==
  /\ HookInit /\ CanvasInit /\ NormalizerIdle /\ ScenarioNone /\ StreamIdle
  /\ extraction \in {[nodes |-> nodes, done |-> FALSE, connections |-> <<>>] :
                       nodes \in ExtractInputs}

Extract ==
  /\ ~extraction.done
  /\ extraction' = [extraction EXCEPT !.done = TRUE,
                      !.connections = extractConnectionsFromNodes(extraction.nodes)]
  /\ UNCHANGED <<hookVars, canvasVars, normalizerVars, scenarioVars, streamVars>>

SpecExtract == InitExtract /\ [][Extract]_vars

\* some string-valued parameter of `node` contains the text {{$source.field}}
References(node, source) ==
  /\ node.params.t = "object"
  /\ \E i \in 1..Len(node.params.entries) :
       LET value == node.params.entries[i].v IN
       /\ value.t = "string"
       /\ \E p \in 1..Len(value.v) :
            /\ p + 4 <= Len(value.v)
            /\ SubSeq(value.v, p, p + 4) = RefTo(source)

\* C27: the connections derived from a node list have both ends in the list,
\* hold no self-edge and no two edges with the same (source, target), and hold
\* the edge S->T exactly when some string-valued parameter of a node T of the
\* list contains a {{$S.field}} reference to another node S of the list.
C27_DerivedConnections ==
  extraction.done =>
    LET nodes == extraction.nodes
        connections == extraction.connections
        ids == {nodes[i].nodeId : i \in 1..Len(nodes)}
        Edge(source, target) ==
          \E j \in 1..Len(connections) :
            connections[j].source = source /\ connections[j].target = target
    IN /\ \A j \in 1..Len(connections) :
            /\ connections[j].source \in ids
            /\ connections[j].target \in ids
            /\ connections[j].source # connections[j].target
       /\ \A j, k \in 1..Len(connections) :
            (connections[j].source = connections[k].source
               /\ connections[j].target = connections[k].target) => j = k
       /\ \A source, target \in ids :
            Edge(source, target) <=>
              /\ source # target
              /\ \E i \in 1..Len(nodes) :
                   nodes[i].nodeId = target /\ References(nodes[i], source)

\* C33: in every reachable state the nodeIds of the entries of nodes are
\* pairwise distinct, whatever node lists the stream delivers.
C33_NodeIdsDistinct ==
  \A i, j \in 1..Len(state.nodes) :
    state.nodes[i].nodeId = state.nodes[j].nodeId => i = j

\* C36: isComplete and hasError are never both true: a session that received
\* status COMPLETED is not later marked as failed, also when the server ends
\* the stream after the last event and the transport reports the closed
\* connection.
C36_CompleteExcludesError == ~(state.isComplete /\ state.hasError)

====
